---- MODULE Spec2Model ----
(***************************************************************************)
(* The request / poll lifecycle of the Homebase Genie client               *)
(* (hb_cs_genie/src/App.js, function App, lines 139-222).                  *)
(*                                                                         *)
(* One App component holds the React state; handleSubmit and pollForAnswer *)
(* are async functions, so each of them is split at its await: the part    *)
(* before the fetch and the part that runs when the fetch settles.  React  *)
(* 18 batches the setState calls of one synchronous part into one render,  *)
(* after which the effect of lines 149-195 runs if one of its dependencies *)
(* changed.  Every action below is one such part followed by that render.  *)
(* State setters called after the component is unmounted do nothing.       *)
(***************************************************************************)
EXTENDS Integers, Sequences, FiniteSets, TLC

\* ---- bounds of the model ------------------------------------------------
MaxSubmits == 2      \* submit requests sent in one run
MaxPolls == 3        \* poll requests sent in one run

\* ---- values ---------------------------------------------------------------
Whitespace == {" "}
\* texts the user types: empty, blank, plain, padded
Questions == {<<>>, <<" ", " ">>, <<"a">>, <<" ", "b", " ">>}
Answers == {"X", "Y"}
JsNull == "null"
NullId == 0          \* useState(null)
UndefinedId == -1    \* data.id of a body without an id

SubmitFailedMsg == "Failed to submit question. Please try again."
PollFailedMsg == "Failed to fetch answer. Please try again."
PollErrorMsg == "An error occurred while processing your question."
UnexpectedMsg == "Unexpected response from server"

VARIABLES
  question,         \* the input buffer
  currentQuestion,  \* the text retained at acceptance
  id,               \* the stored request handle
  status,           \* QueryState
  answer,
  error,
  qaHistory,        \* newest first
  submits,          \* handleSubmit calls waiting for their fetch
  polls,            \* pollForAnswer closures: fetch in flight or timer pending
  mounted,          \* the component is in the tree
  backend,          \* backend[h] = query_text of the submission given handle h
  submitsSent,      \* number of POST /submit_query sent
  pollsSent,        \* number of GET /get_query sent
  lastRequest,      \* the request sent last
  loopIds,          \* loopIds[l] = handle the l-th started poll loop polls
  histLoops,        \* histLoops[i] = the loop that created qaHistory[i]
  inProgressSeen,   \* number of poll responses with status in-progress
  terminated,       \* loops whose poll got a terminal outcome
  event             \* the handler part that ran last

state == <<question, currentQuestion, id, status, answer, error, qaHistory>>
vars == <<question, currentQuestion, id, status, answer, error, qaHistory,
          submits, polls, mounted, backend, submitsSent, pollsSent, lastRequest,
          loopIds, histLoops, inProgressSeen, terminated, event>>
requests == <<submitsSent, pollsSent, lastRequest>>

\* String.prototype.trim: drop leading and trailing whitespace
RECURSIVE TrimStart(_)
TrimStart(s) ==
  IF s # <<>> /\ Head(s) \in Whitespace THEN TrimStart(Tail(s)) ELSE s

RECURSIVE TrimEnd(_)
TrimEnd(s) ==
  IF s # <<>> /\ s[Len(s)] \in Whitespace
  THEN TrimEnd(SubSeq(s, 1, Len(s) - 1)) ELSE s

\* handleSubmit testing !question in place of !question.trim()
TrimNothing(s) == s

Trim(s) == TrimEnd(TrimStart(s))

SubmitReq(q) == [kind |-> "submit", text |-> q, id |-> NullId]
PollReq(h) == [kind |-> "poll", text |-> <<>>, id |-> h]
NoReq == [kind |-> "none", text |-> <<>>, id |-> NullId]

Ev(op, n, reply, data) == [op |-> op, n |-> n, reply |-> reply, data |-> data]

Init ==
  /\ question = <<>>
  /\ currentQuestion = <<>>
  /\ id = NullId
  /\ status = "completed"
  /\ answer = ""
  /\ error = ""
  /\ qaHistory = <<>>
  /\ submits = {}
  /\ polls = {}
  /\ mounted = TRUE
  /\ backend = <<>>
  /\ submitsSent = 0
  /\ pollsSent = 0
  /\ lastRequest = NoReq
  /\ loopIds = <<>>
  /\ histLoops = <<>>
  /\ inProgressSeen = 0
  /\ terminated = {}
  /\ event = Ev("init", 0, "", "")

\* The effect of lines 149-195, run after a render: when a dependency changed,
\* the old cleanup runs (clearTimeout() without a timer id cancels nothing, so
\* the loops in rest stay) and, if status is in-progress, pollForAnswer(id) is
\* called, which sends its first fetch at once.
PollEffect(rest) ==
  IF /\ <<status', answer', id', currentQuestion'>>
          # <<status, answer, id, currentQuestion>>
     /\ status' = "in-progress"
  THEN /\ pollsSent < MaxPolls
       /\ polls' = rest \cup {[lid |-> Len(loopIds) + 1, id |-> id',
                               cq |-> currentQuestion', pc |-> "fetch"]}
       /\ pollsSent' = pollsSent + 1
       /\ lastRequest' = PollReq(id')
       /\ loopIds' = Append(loopIds, id')
  ELSE /\ polls' = rest
       /\ UNCHANGED <<pollsSent, lastRequest, loopIds>>

\* onChange of the TextInput, which is disabled while status is in-progress
SetQuestion(q) ==
  /\ mounted
  /\ status # "in-progress"
  /\ question' = q
  /\ event' = Ev("type", 0, "", "")
  /\ UNCHANGED <<currentQuestion, id, status, answer, error, qaHistory,
                 submits, polls, mounted, backend, submitsSent, pollsSent,
                 lastRequest, loopIds, histLoops>>
  /\ UNCHANGED <<inProgressSeen, terminated>>

\* handleSubmit without its setError(null)
HandleSubmitKeepsError ==
  /\ mounted
  /\ IF Trim(question) = <<>> \/ status = "in-progress"
     THEN /\ event' = Ev("submit", 0, "rejected", "")
          /\ UNCHANGED <<question, currentQuestion, id, status, answer, error,
                         qaHistory, submits, polls, mounted, backend, submitsSent,
                         pollsSent, lastRequest, loopIds, histLoops>>
     ELSE /\ submitsSent < MaxSubmits
          /\ currentQuestion' = question
          /\ question' = <<>>
          /\ status' = "submitting"
          /\ answer' = JsNull
          /\ submits' = submits \cup {[sid |-> submitsSent + 1, text |-> question]}
          /\ submitsSent' = submitsSent + 1
          /\ lastRequest' = SubmitReq(question)
          /\ event' = Ev("submit", submitsSent + 1, "accepted", "")
          /\ UNCHANGED <<id, error, qaHistory, polls, mounted, backend, pollsSent,
                         loopIds, histLoops>>
  /\ UNCHANGED <<inProgressSeen, terminated>>

\* handleSubmit up to its await
HandleSubmit ==
  /\ mounted
  /\ IF Trim(question) = <<>> \/ status = "in-progress"
     THEN /\ event' = Ev("submit", 0, "rejected", "")
          /\ UNCHANGED <<question, currentQuestion, id, status, answer, error,
                         qaHistory, submits, polls, mounted, backend, submitsSent,
                         pollsSent, lastRequest, loopIds, histLoops>>
     ELSE /\ submitsSent < MaxSubmits
          /\ currentQuestion' = question
          /\ question' = <<>>
          /\ status' = "submitting"
          /\ error' = JsNull
          /\ answer' = JsNull
          /\ submits' = submits \cup {[sid |-> submitsSent + 1, text |-> question]}
          /\ submitsSent' = submitsSent + 1
          /\ lastRequest' = SubmitReq(question)
          /\ event' = Ev("submit", submitsSent + 1, "accepted", "")
          /\ UNCHANGED <<id, qaHistory, polls, mounted, backend, pollsSent,
                         loopIds, histLoops>>
  /\ UNCHANGED <<inProgressSeen, terminated>>

\* the acknowledgment handled as in the first variant of the file (lines
\* 71-74): setStatus('polling'), a status the effect does not poll on
SubmitOkPolling(s) ==
  /\ s \in submits
  /\ submits' = submits \ {s}
  /\ backend' = Append(backend, s.text)
  /\ event' = Ev("submitResponse", s.sid, "ok", "")
  /\ IF mounted
     THEN /\ id' = Len(backend) + 1
          /\ status' = "polling"
          /\ UNCHANGED <<question, currentQuestion, answer, error, qaHistory>>
          /\ PollEffect(polls)
     ELSE UNCHANGED <<question, currentQuestion, id, status, answer, error,
                      qaHistory, polls, pollsSent, lastRequest, loopIds>>
  /\ UNCHANGED <<mounted, submitsSent, histLoops>>
  /\ UNCHANGED <<inProgressSeen, terminated>>

\* handleSubmit after its await: response.ok and a body with an id
SubmitOk(s) ==
  /\ s \in submits
  /\ submits' = submits \ {s}
  /\ backend' = Append(backend, s.text)
  /\ event' = Ev("submitResponse", s.sid, "ok", "")
  /\ IF mounted
     THEN /\ id' = Len(backend) + 1
          /\ status' = "in-progress"
          /\ UNCHANGED <<question, currentQuestion, answer, error, qaHistory>>
          /\ PollEffect(polls)
     ELSE UNCHANGED <<question, currentQuestion, id, status, answer, error,
                      qaHistory, polls, pollsSent, lastRequest, loopIds>>
  /\ UNCHANGED <<mounted, submitsSent, histLoops>>
  /\ UNCHANGED <<inProgressSeen, terminated>>

\* handleSubmit after its await: response.ok and a body without an id
SubmitNoId(s) ==
  /\ s \in submits
  /\ submits' = submits \ {s}
  /\ event' = Ev("submitResponse", s.sid, "noid", "")
  /\ IF mounted
     THEN /\ id' = UndefinedId
          /\ status' = "in-progress"
          /\ UNCHANGED <<question, currentQuestion, answer, error, qaHistory>>
          /\ PollEffect(polls)
     ELSE UNCHANGED <<question, currentQuestion, id, status, answer, error,
                      qaHistory, polls, pollsSent, lastRequest, loopIds>>
  /\ UNCHANGED <<mounted, backend, submitsSent, histLoops>>
  /\ UNCHANGED <<inProgressSeen, terminated>>

\* handleSubmit after its await: fetch rejected or response.ok false
SubmitFailed(s) ==
  /\ s \in submits
  /\ submits' = submits \ {s}
  /\ event' = Ev("submitResponse", s.sid, "fail", "")
  /\ IF mounted
     THEN /\ error' = SubmitFailedMsg
          /\ status' = "idle"
          /\ UNCHANGED <<question, currentQuestion, id, answer, qaHistory>>
          /\ PollEffect(polls)
     ELSE UNCHANGED <<question, currentQuestion, id, status, answer, error,
                      qaHistory, polls, pollsSent, lastRequest, loopIds>>
  /\ UNCHANGED <<mounted, backend, submitsSent, histLoops>>
  /\ UNCHANGED <<inProgressSeen, terminated>>

Fetching(p) == p \in polls /\ p.pc = "fetch"
\* the backend reports a status only for a handle it has issued
Known(p) == p.id \in DOMAIN backend

\* case 'completed' with each setState rendered on its own: the render after
\* setAnswer still has status in-progress and a changed answer, so the effect
\* calls pollForAnswer(id) once more
PollCompletedUnbatched(p, a) ==
  /\ Fetching(p)
  /\ Known(p)
  /\ event' = Ev("pollResponse", p.lid, "completed", a)
  /\ IF mounted
     THEN /\ answer' = a
          /\ status' = "answered"
          /\ qaHistory' = <<[question |-> p.cq, answer |-> a]>> \o qaHistory
          /\ histLoops' = <<p.lid>> \o histLoops
          /\ UNCHANGED <<question, currentQuestion, id, error>>
          /\ IF answer # a /\ status = "in-progress"
             THEN /\ pollsSent < MaxPolls
                  /\ polls' = (polls \ {p}) \cup
                               {[lid |-> Len(loopIds) + 1, id |-> id,
                                 cq |-> currentQuestion, pc |-> "fetch"]}
                  /\ pollsSent' = pollsSent + 1
                  /\ lastRequest' = PollReq(id)
                  /\ loopIds' = Append(loopIds, id)
             ELSE /\ polls' = polls \ {p}
                  /\ UNCHANGED <<pollsSent, lastRequest, loopIds>>
     ELSE /\ polls' = polls \ {p}
          /\ UNCHANGED <<question, currentQuestion, id, status, answer, error,
                         qaHistory, histLoops, pollsSent, lastRequest, loopIds>>
  /\ UNCHANGED <<submits, mounted, backend, submitsSent>>
  /\ terminated' = terminated \cup {p.lid}
  /\ UNCHANGED inProgressSeen

\* case 'completed' without its break: control falls into case 'in-progress'
\* and the next cycle is scheduled
PollCompletedFallsThrough(p, a) ==
  /\ Fetching(p)
  /\ Known(p)
  /\ event' = Ev("pollResponse", p.lid, "completed", a)
  /\ IF mounted
     THEN /\ answer' = a
          /\ status' = "answered"
          /\ qaHistory' = <<[question |-> p.cq, answer |-> a]>> \o qaHistory
          /\ histLoops' = <<p.lid>> \o histLoops
          /\ UNCHANGED <<question, currentQuestion, id, error>>
          /\ PollEffect((polls \ {p}) \cup {[p EXCEPT !.pc = "timer"]})
     ELSE /\ polls' = (polls \ {p}) \cup {[p EXCEPT !.pc = "timer"]}
          /\ UNCHANGED <<question, currentQuestion, id, status, answer, error,
                         qaHistory, histLoops, pollsSent, lastRequest, loopIds>>
  /\ UNCHANGED <<submits, mounted, backend, submitsSent>>
  /\ terminated' = terminated \cup {p.lid}
  /\ UNCHANGED inProgressSeen

\* pollForAnswer after its await, case 'completed'
PollCompleted(p, a) ==
  /\ Fetching(p)
  /\ Known(p)
  /\ event' = Ev("pollResponse", p.lid, "completed", a)
  /\ IF mounted
     THEN /\ answer' = a
          /\ status' = "answered"
          /\ qaHistory' = <<[question |-> p.cq, answer |-> a]>> \o qaHistory
          /\ histLoops' = <<p.lid>> \o histLoops
          /\ UNCHANGED <<question, currentQuestion, id, error>>
          /\ PollEffect(polls \ {p})
     ELSE /\ polls' = polls \ {p}
          /\ UNCHANGED <<question, currentQuestion, id, status, answer, error,
                         qaHistory, histLoops, pollsSent, lastRequest, loopIds>>
  /\ UNCHANGED <<submits, mounted, backend, submitsSent>>
  /\ terminated' = terminated \cup {p.lid}
  /\ UNCHANGED inProgressSeen

\* case 'in-progress' that schedules the next cycle and also polls at once
PollInProgressEager(p) ==
  /\ Fetching(p)
  /\ Known(p)
  /\ pollsSent < MaxPolls
  /\ event' = Ev("pollResponse", p.lid, "in-progress", "")
  /\ polls' = polls \cup {[p EXCEPT !.pc = "timer"]}
  /\ pollsSent' = pollsSent + 1
  /\ lastRequest' = PollReq(p.id)
  /\ UNCHANGED <<question, currentQuestion, id, status, answer, error, qaHistory,
                 submits, mounted, backend, submitsSent, loopIds, histLoops>>
  /\ inProgressSeen' = inProgressSeen + 1
  /\ UNCHANGED terminated

\* pollForAnswer after its await, case 'in-progress': setTimeout(..., 1000)
PollInProgress(p) ==
  /\ Fetching(p)
  /\ Known(p)
  /\ event' = Ev("pollResponse", p.lid, "in-progress", "")
  /\ polls' = (polls \ {p}) \cup {[p EXCEPT !.pc = "timer"]}
  /\ UNCHANGED <<question, currentQuestion, id, status, answer, error, qaHistory,
                 submits, mounted, backend, submitsSent, pollsSent, lastRequest,
                 loopIds, histLoops>>
  /\ inProgressSeen' = inProgressSeen + 1
  /\ UNCHANGED terminated

\* an error exit that also records the message in the history
PollStoppedLogged(p, reply, msg) ==
  /\ Fetching(p)
  /\ event' = Ev("pollResponse", p.lid, reply, "")
  /\ IF mounted
     THEN /\ error' = msg
          /\ status' = "idle"
          /\ qaHistory' = <<[question |-> p.cq, answer |-> msg]>> \o qaHistory
          /\ histLoops' = <<p.lid>> \o histLoops
          /\ UNCHANGED <<question, currentQuestion, id, answer>>
          /\ PollEffect(polls \ {p})
     ELSE /\ polls' = polls \ {p}
          /\ UNCHANGED <<question, currentQuestion, id, status, answer, error,
                         qaHistory, histLoops, pollsSent, lastRequest, loopIds>>
  /\ UNCHANGED <<submits, mounted, backend, submitsSent>>
  /\ terminated' = terminated \cup {p.lid}
  /\ UNCHANGED inProgressSeen

\* an error exit that reports the error and still schedules the next cycle
PollStoppedRetry(p, reply, msg) ==
  /\ Fetching(p)
  /\ event' = Ev("pollResponse", p.lid, reply, "")
  /\ IF mounted
     THEN /\ error' = msg
          /\ status' = "idle"
          /\ UNCHANGED <<question, currentQuestion, id, answer, qaHistory>>
          /\ PollEffect((polls \ {p}) \cup {[p EXCEPT !.pc = "timer"]})
     ELSE /\ polls' = (polls \ {p}) \cup {[p EXCEPT !.pc = "timer"]}
          /\ UNCHANGED <<question, currentQuestion, id, status, answer, error,
                         qaHistory, pollsSent, lastRequest, loopIds>>
  /\ UNCHANGED <<submits, mounted, backend, submitsSent, histLoops>>
  /\ terminated' = terminated \cup {p.lid}
  /\ UNCHANGED inProgressSeen

\* the error exits of pollForAnswer: case 'error', default, catch
PollStopped(p, reply, msg) ==
  /\ Fetching(p)
  /\ event' = Ev("pollResponse", p.lid, reply, "")
  /\ IF mounted
     THEN /\ error' = msg
          /\ status' = "idle"
          /\ UNCHANGED <<question, currentQuestion, id, answer, qaHistory>>
          /\ PollEffect(polls \ {p})
     ELSE /\ polls' = polls \ {p}
          /\ UNCHANGED <<question, currentQuestion, id, status, answer, error,
                         qaHistory, pollsSent, lastRequest, loopIds>>
  /\ UNCHANGED <<submits, mounted, backend, submitsSent, histLoops>>
  /\ terminated' = terminated \cup {p.lid}
  /\ UNCHANGED inProgressSeen

PollError(p) == Known(p) /\ PollStopped(p, "error", PollErrorMsg)
PollUnexpected(p) == PollStopped(p, "other", UnexpectedMsg)
PollFailed(p) == PollStopped(p, "fail", PollFailedMsg)

\* the timer armed with setInterval in place of setTimeout: it fires into a
\* poll and stays armed
TimerFiredInterval(p) ==
  /\ p \in polls
  /\ p.pc = "timer"
  /\ pollsSent < MaxPolls
  /\ polls' = polls \cup {[p EXCEPT !.pc = "fetch"]}
  /\ pollsSent' = pollsSent + 1
  /\ lastRequest' = PollReq(p.id)
  /\ event' = Ev("timer", p.lid, "", "")
  /\ UNCHANGED <<question, currentQuestion, id, status, answer, error, qaHistory,
                 submits, mounted, backend, submitsSent, loopIds, histLoops>>
  /\ UNCHANGED <<inProgressSeen, terminated>>

\* the timer of line 171 fires: pollForAnswer(id) again, with the closure's id
TimerFired(p) ==
  /\ p \in polls
  /\ p.pc = "timer"
  /\ pollsSent < MaxPolls
  /\ polls' = (polls \ {p}) \cup {[p EXCEPT !.pc = "fetch"]}
  /\ pollsSent' = pollsSent + 1
  /\ lastRequest' = PollReq(p.id)
  /\ event' = Ev("timer", p.lid, "", "")
  /\ UNCHANGED <<question, currentQuestion, id, status, answer, error, qaHistory,
                 submits, mounted, backend, submitsSent, loopIds, histLoops>>
  /\ UNCHANGED <<inProgressSeen, terminated>>

\* the view is torn down: the cleanup of lines 191-194 calls clearTimeout()
\* with no timer id, which cancels nothing
Unmount ==
  /\ mounted
  /\ mounted' = FALSE
  /\ event' = Ev("unmount", 0, "", "")
  /\ UNCHANGED <<question, currentQuestion, id, status, answer, error, qaHistory,
                 submits, polls, backend, submitsSent, pollsSent, lastRequest,
                 loopIds, histLoops>>
  /\ UNCHANGED <<inProgressSeen, terminated>>

Next ==
  \/ \E q \in Questions : SetQuestion(q)
  \/ HandleSubmit
  \/ \E s \in submits : SubmitOk(s)
  \/ \E s \in submits : SubmitNoId(s)
  \/ \E s \in submits : SubmitFailed(s)
  \/ \E p \in polls, a \in Answers : PollCompleted(p, a)
  \/ \E p \in polls : PollInProgress(p)
  \/ \E p \in polls : PollError(p)
  \/ \E p \in polls : PollUnexpected(p)
  \/ \E p \in polls : PollFailed(p)
  \/ \E p \in polls : TimerFired(p)
  \/ Unmount

Spec == Init /\ [][Next]_vars

\* ---- derived quantities --------------------------------------------------
\* number of poll loops started for handle h
LoopsFor(h) == Cardinality({l \in DOMAIN loopIds : loopIds[l] = h})
\* number of history entries created by a loop polling handle h
EntriesFor(h) ==
  Cardinality({i \in DOMAIN histLoops : loopIds[histLoops[i]] = h})

\* handles issued by the backend whose poll has had a terminal outcome
TerminalHandles == {loopIds[l] : l \in terminated} \cap DOMAIN backend

\* ---- C1 --------------------------------------------------------------------
\* C1: a submit of a non-empty question while status is in-progress or
\* submitting sends no request and leaves status, id, currentQuestion, answer,
\* error, the input buffer and the history unchanged.
C1_SubmitWhileBusyIsNoOp ==
  [][(/\ event'.op = "submit"
      /\ status \in {"in-progress", "submitting"}
      /\ Trim(question) # <<>>)
     => /\ UNCHANGED state
        /\ UNCHANGED <<submitsSent, pollsSent, lastRequest>>]_vars

\* ---- C2 --------------------------------------------------------------------
\* C2: the unanswered submit requests plus the live poll loops (fetch in
\* flight or timer pending) number at most one in every reachable state.
C2_AtMostOneOutstanding == Cardinality(submits) + Cardinality(polls) <= 1

\* ---- C3 --------------------------------------------------------------------
\* C3: for every handle the backend issued, the poll loop is started exactly
\* once (once the acknowledgment has been handled by the live view) and at
\* most one history entry stems from it; the step that handles a completed
\* response in the live view adds exactly one entry, the only one for that
\* handle.
C3_OneEntryPerLifecycle ==
  /\ [](\A h \in DOMAIN backend :
          /\ LoopsFor(h) <= 1
          /\ mounted => LoopsFor(h) = 1
          /\ EntriesFor(h) <= 1)
  /\ [][(event'.op = "pollResponse" /\ event'.reply = "completed" /\ mounted)
        => /\ Len(qaHistory') = Len(qaHistory) + 1
           /\ \A h \in DOMAIN backend :
                 h = loopIds[event'.n] => (EntriesFor(h) = 0 /\ EntriesFor(h)' = 1)]_vars

\* two submissions completed, each with its own entry
C3_Witness ==
  /\ event.op = "pollResponse"
  /\ event.reply = "completed"
  /\ mounted
  /\ Len(qaHistory) = 2
  /\ EntriesFor(1) = 1
  /\ EntriesFor(2) = 1

\* ---- C4 --------------------------------------------------------------------
\* C4: teardown cancels the scheduled poll cycle: once the view is torn down
\* no further poll request is sent and the session state does not change.
C4_TeardownCancelsPolling ==
  [][~mounted => (pollsSent' = pollsSent /\ UNCHANGED state)]_vars

\* ---- C5 --------------------------------------------------------------------
\* C5: a submit whose question is empty or consists of whitespace only
\* changes nothing: no session state, no request sent, nothing in flight.
C5_BlankSubmitIsNoOp ==
  [][(event'.op = "submit" /\ \A i \in DOMAIN question : question[i] \in Whitespace)
     => /\ UNCHANGED state
        /\ UNCHANGED <<submits, polls, mounted, backend, submitsSent,
                       pollsSent, lastRequest, loopIds, histLoops>>]_vars

\* a whitespace-only question was submitted after an answered request
C5_Witness ==
  /\ event.op = "submit"
  /\ question = <<" ", " ">>
  /\ status = "answered"
  /\ qaHistory # <<>>

\* ---- C6 --------------------------------------------------------------------
\* C6: on a completed response with answer X for the request submitted with
\* question Q, the history becomes (Q, X) followed by the prior history,
\* answer becomes X and status becomes answered.
C6_CompletedPrependsEntry ==
  [][(event'.op = "pollResponse" /\ event'.reply = "completed" /\ mounted)
     => /\ qaHistory' = <<[question |-> backend[loopIds[event'.n]],
                           answer |-> event'.data]>> \o qaHistory
        /\ answer' = event'.data
        /\ status' = "answered"]_vars

\* ---- C7 --------------------------------------------------------------------
\* C7: only the handling of a completed poll response changes the history,
\* and every step keeps the prior history as the tail of the new one.
C7_HistoryOnlyGrowsOnCompleted ==
  [][/\ qaHistory' # qaHistory
        => (event'.op = "pollResponse" /\ event'.reply = "completed")
     /\ Len(qaHistory') >= Len(qaHistory)
     /\ SubSeq(qaHistory', Len(qaHistory') - Len(qaHistory) + 1,
               Len(qaHistory')) = qaHistory]_vars

\* a poll failed while the history held an entry
C7_Witness ==
  /\ event.op = "pollResponse"
  /\ event.reply \in {"error", "other", "fail"}
  /\ mounted
  /\ Len(qaHistory) = 1
  /\ error = PollErrorMsg

\* ---- C8 --------------------------------------------------------------------
\* C8: a submit response without a handle, like a submit transport failure,
\* sets error to the submission-failure message and status to idle and
\* starts no poll.
C8_MalformedAckFails ==
  [][(/\ event'.op = "submitResponse"
      /\ event'.reply \in {"noid", "fail"}
      /\ mounted)
     => /\ error' = SubmitFailedMsg
        /\ status' = "idle"
        /\ polls' = polls
        /\ pollsSent' = pollsSent]_vars

\* ---- C9 --------------------------------------------------------------------
\* C9: a submit transport failure leaves the history unchanged, sets error
\* and sets status to idle; from then on (status idle with the submission
\* failure displayed) no request is sent by any step other than a submit.
C9_SubmitFailureNotRetried ==
  /\ [][(event'.op = "submitResponse" /\ event'.reply = "fail" /\ mounted)
        => /\ qaHistory' = qaHistory
           /\ error' = SubmitFailedMsg
           /\ status' = "idle"]_vars
  /\ [][(status = "idle" /\ error = SubmitFailedMsg /\ event'.op # "submit")
        => (submitsSent' = submitsSent /\ pollsSent' = pollsSent)]_vars

\* ---- C10 -------------------------------------------------------------------
\* C10: in the live view a poll response with status error or an unrecognized
\* status, and a poll transport failure, each set a non-empty error and
\* status idle, leave the history unchanged, send no request and end the
\* loop: it has neither a fetch in flight nor a timer pending afterwards.
C10_PollFailureIsTerminal ==
  [][(/\ event'.op = "pollResponse"
      /\ event'.reply \in {"error", "other", "fail"}
      /\ mounted)
     => /\ error' \notin {"", JsNull}
        /\ status' = "idle"
        /\ qaHistory' = qaHistory
        /\ UNCHANGED <<submitsSent, pollsSent, lastRequest>>
        /\ polls' \subseteq polls
        /\ \A p \in polls' : p.lid # event'.n]_vars

\* a poll ran into a transport failure on its second cycle
C10_Witness ==
  /\ event.op = "pollResponse"
  /\ event.reply = "fail"
  /\ mounted
  /\ status = "idle"
  /\ error = PollFailedMsg
  /\ pollsSent = 2
  /\ polls = {}

C12_PollLoopRunsUntilTerminal ==
  [][/\ (/\ event'.op = "pollResponse"
         /\ event'.reply \in {"completed", "error", "other", "fail"}
         /\ mounted)
        => /\ status' \in {"answered", "idle"}
           /\ \A q \in polls' : q.lid # event'.n
     /\ (event'.op = "pollResponse" /\ event'.reply = "in-progress" /\ mounted)
        => /\ status' = "in-progress"
           /\ \E q \in polls' : q.lid = event'.n /\ q.pc = "timer"
     /\ (status = "in-progress" /\ status' # "in-progress")
        => /\ event'.op = "pollResponse"
           /\ event'.reply \in {"completed", "error", "other", "fail"}]_vars

\* ---- C13 -------------------------------------------------------------------
\* C13: in a run with one accepted submit of Q, acknowledged with a handle,
\* whose poll gets n in-progress responses and then completed with answer A,
\* the state after the completed response is History = [(Q, A)], status
\* answered, no error message (the null set at acceptance), and exactly n + 1
\* poll requests have been sent.
C13_EndToEnd ==
  (/\ event.op = "pollResponse"
   /\ event.reply = "completed"
   /\ mounted
   /\ submitsSent = 1)
  => /\ qaHistory = <<[question |-> backend[1], answer |-> event.data]>>
     /\ status = "answered"
     /\ error \in {"", JsNull}
     /\ pollsSent = inProgressSeen + 1

\* the spec's instance: one in-progress response, then completed
C13_Witness ==
  /\ event = Ev("pollResponse", 1, "completed", "X")
  /\ mounted
  /\ submitsSent = 1
  /\ inProgressSeen = 1
  /\ pollsSent = 2
  /\ qaHistory = <<[question |-> <<" ", "b", " ">>, answer |-> "X"]>>

\* ---- C14 -------------------------------------------------------------------
\* C14: once a poll of a backend-issued handle has had a terminal outcome
\* (completed, error, unrecognized status, transport failure), no loop for
\* that handle has a fetch in flight or a timer pending, and no later step
\* sends a poll request for it, whatever is submitted afterwards.
C14_TerminalHandleNeverPolledAgain ==
  /\ [](\A p \in polls : p.id \notin TerminalHandles)
  /\ [][pollsSent' # pollsSent => lastRequest'.id \notin TerminalHandles]_vars

\* handle 1 is terminal and the loop of handle 2 polls on its timer
C14_Witness ==
  /\ terminated = {1}
  /\ loopIds = <<1, 2>>
  /\ event = Ev("timer", 2, "", "")
  /\ lastRequest = PollReq(2)
  /\ pollsSent = 3

\* ---- C15 -------------------------------------------------------------------
\* C15: handling a poll response with status in-progress sends nothing,
\* leaves the session state unchanged and leaves the loop with exactly one
\* pending timer and no fetch in flight; that timer, when it fires, sends
\* exactly one poll request, for the loop's handle, and is pending no more.
C15_InProgressSchedulesOnePoll ==
  [][/\ (event'.op = "pollResponse" /\ event'.reply = "in-progress")
        => /\ UNCHANGED state
           /\ UNCHANGED <<submitsSent, pollsSent, lastRequest>>
           /\ Cardinality({q \in polls' : q.lid = event'.n}) = 1
           /\ \A q \in polls' : q.lid = event'.n => q.pc = "timer"
           /\ Cardinality(polls') = Cardinality(polls)
     /\ event'.op = "timer"
        => /\ UNCHANGED state
           /\ pollsSent' = pollsSent + 1
           /\ submitsSent' = submitsSent
           /\ lastRequest' = PollReq(loopIds[event'.n])
           /\ Cardinality({q \in polls' : q.lid = event'.n}) = 1
           /\ \A q \in polls' : q.lid = event'.n => q.pc = "fetch"
           /\ Cardinality(polls') = Cardinality(polls)]_vars

\* the timer armed by an in-progress response has fired into the second poll
C15_Witness ==
  /\ event = Ev("timer", 1, "", "")
  /\ inProgressSeen = 1
  /\ pollsSent = 2
  /\ status = "in-progress"
  /\ polls = {[lid |-> 1, id |-> 1, cq |-> <<"a">>, pc |-> "fetch"]}

\* ---- C16 -------------------------------------------------------------------
\* C16: every history entry carries the question text that was submitted for
\* the handle whose poll returned the entry's answer.
C16_HistoryAttribution ==
  \A i \in DOMAIN qaHistory :
     qaHistory[i].question = backend[loopIds[histLoops[i]]]

\* ---- C17 -------------------------------------------------------------------
\* C17: a submit of a question that is not blank, in any status but
\* in-progress, is accepted: error and answer become null, the input buffer
\* becomes empty, currentQuestion becomes the submitted text, status becomes
\* submitting, exactly one submit request carrying that text is sent and is
\* the only new request in flight; history, id and the poll loops are unchanged.
C17_AcceptanceEffects ==
  [][(/\ event'.op = "submit"
      /\ \E i \in DOMAIN question : question[i] \notin Whitespace
      /\ status # "in-progress")
     => /\ error' = JsNull
        /\ answer' = JsNull
        /\ question' = <<>>
        /\ currentQuestion' = question
        /\ status' = "submitting"
        /\ submitsSent' = submitsSent + 1
        /\ lastRequest' = SubmitReq(question)
        /\ submits \subseteq submits'
        /\ Cardinality(submits') = Cardinality(submits) + 1
        /\ \A r \in submits' \ submits : r.text = question
        /\ UNCHANGED <<qaHistory, id, polls, pollsSent>>]_vars

\* a second question was accepted after a poll of the first one had failed
C17_Witness ==
  /\ event = Ev("submit", 2, "accepted", "")
  /\ currentQuestion = <<" ", "b", " ">>
  /\ lastRequest = SubmitReq(<<" ", "b", " ">>)
  /\ status = "submitting"
  /\ error = JsNull
  /\ id = 1
  /\ terminated = {1}
  /\ qaHistory = <<>>

\* ---- C18 -------------------------------------------------------------------
\* C18: in every reachable state, the initial one included, status is one of
\* idle, submitting, in-progress, answered, error.
C18_StatusEnumerated ==
  status \in {"idle", "submitting", "in-progress", "answered", "error"}

\* ---- C19 -------------------------------------------------------------------
\* C19: in every reachable state a displayed error message (error neither
\* empty nor null) implies status idle.
C19_ErrorImpliesIdle == error \notin {"", JsNull} => status = "idle"

\* ---- C20 -------------------------------------------------------------------
\* C20: whenever a poll request is sent, status is in-progress, no submission
\* is left unacknowledged, and the request carries a handle the backend
\* issued, namely the stored one, set by the latest acknowledgment.
C20_PollCarriesCurrentHandle ==
  [][pollsSent' # pollsSent
     => /\ status' = "in-progress"
        /\ submits' = {}
        /\ lastRequest'.id \in DOMAIN backend'
        /\ lastRequest'.id = Len(backend')
        /\ lastRequest'.id = id']_vars

====
